---- MODULE Spec2Model ----
(***************************************************************************)
(* A model of data_structures::Graph (src/data_structures/graph.hpp): the  *)
(* vertex count V, the adjacency list and the adjacency matrix, the        *)
(* mutators and the graph algorithms, each translated from its code.       *)
(*                                                                         *)
(* Vertices are 0..V-1 as in the code; a vector<T> of size V is a function *)
(* on 0..V-1; a vector<pair<int,int>> is a sequence of <<neighbor,weight>>.*)
(***************************************************************************)
EXTENDS Integers, Sequences, FiniteSets, TLC

\* ------------------------------------------------------------- bounds
\* Largest vertex count a Graph is constructed with.
MaxV == 3
\* addEdge is called only while the adjacency list holds fewer entries.
MaxEdges == 3
\* The weights addEdge is called with, and the subsets of them the
\* specifications of one algorithm build their graphs with.
Weights == {-1, 0, 1, 2}
UnitWeights == {1}
PairWeights == {1, 2}
NonNegWeights == {0, 1}
SignedWeights == {-1, 1}

\* const int INF = numeric_limits<int>::max();
INF == 2147483647

VARIABLES
    V,          \* Graph::V
    adjList,    \* Graph::adjList
    adjMatrix,  \* Graph::adjMatrix
    hist,       \* history: per vertex, the addEdge calls not since removed
    res,        \* the value the last query returned on the graph as it is
    fault       \* undefined behaviour has been executed

vars == <<V, adjList, adjMatrix, hist, res, fault>>

Verts(n) == 0 .. (n - 1)

\* ------------------------------------------------------ GraphStore
\* Graph::Graph(int vertices)
Graph(vertices) ==
    [V |-> vertices,
     adjList |-> [u \in Verts(vertices) |-> << >>],
     adjMatrix |-> [u \in Verts(vertices) |-> [v \in Verts(vertices) |-> 0]]]

\* The object the member functions are called on.
this == [V |-> V, adjList |-> adjList, adjMatrix |-> adjMatrix]

\* The guard of addEdge and removeEdge: only "too large" is tested.
rangeGuard(g, u, v) == u >= g.V \/ v >= g.V

\* An index the guard lets through that is outside the vectors: operator[]
\* with a negative index is undefined behaviour.
outOfBounds(g, u, v) == ~rangeGuard(g, u, v) /\ (u < 0 \/ v < 0)

\* Graph::addEdge. With u < 0 the first statement already leaves the outer
\* vector; with only v < 0 the push_back is done and the matrix write leaves
\* the row.
addEdge(g, u, v, weight) ==
    IF rangeGuard(g, u, v) THEN g
    ELSE IF u < 0 THEN g
    ELSE [g EXCEPT !.adjList[u] = Append(@, <<v, weight>>),
                   !.adjMatrix[u] = IF v >= 0 THEN [@ EXCEPT ![v] = weight] ELSE @]

\* erase of the first entry to v only.
RECURSIVE eraseFirst(_, _)
eraseFirst(list, v) ==
    IF list = << >> THEN << >>
    ELSE IF Head(list)[1] = v THEN Tail(list)
    ELSE <<Head(list)>> \o eraseFirst(Tail(list), v)

\* A removeEdge that erases one entry instead of every entry to v.
removeFirstEdge(g, u, v) ==
    IF rangeGuard(g, u, v) THEN g
    ELSE IF u < 0 THEN g
    ELSE [g EXCEPT !.adjList[u] = eraseFirst(@, v),
                   !.adjMatrix[u] = IF v >= 0 THEN [@ EXCEPT ![v] = 0] ELSE @]

\* A removeEdge that clears the cell of the reverse edge as well.
removeEdgeBothCells(g, u, v) ==
    IF rangeGuard(g, u, v) THEN g
    ELSE IF u < 0 THEN g
    ELSE [g EXCEPT !.adjList[u] = SelectSeq(@, LAMBDA e : e[1] # v),
                   !.adjMatrix = [i \in DOMAIN @ |-> [j \in DOMAIN @[i] |->
                       IF <<i, j>> \in {<<u, v>>, <<v, u>>} THEN 0
                       ELSE @[i][j]]]]

\* Graph::removeEdge: erase(remove_if(target == v)), then the matrix cell.
removeEdge(g, u, v) ==
    IF rangeGuard(g, u, v) THEN g
    ELSE IF u < 0 THEN g
    ELSE [g EXCEPT !.adjList[u] = SelectSeq(@, LAMBDA e : e[1] # v),
                   !.adjMatrix[u] = IF v >= 0 THEN [@ EXCEPT ![v] = 0] ELSE @]

\* A loop that strips nothing.
keepIncoming(g, v, from) == g

\* The loop of removeVertex: removeEdge(i, v) for i = from .. V-1.
RECURSIVE removeIncoming(_, _, _)
removeIncoming(g, v, from) ==
    IF from >= g.V THEN g
    ELSE removeIncoming(removeEdge(g, from, v), v, from + 1)

\* Graph::removeVertex
removeVertex(g, v) ==
    IF v >= g.V THEN g
    ELSE IF v < 0 THEN g
    ELSE removeIncoming(
            [g EXCEPT !.adjList[v] = << >>,
                      !.adjMatrix[v] = [j \in Verts(g.V) |-> 0]],
            v, 0)

\* An edgeExists that looks for an entry in the list.
edgeExistsInList(g, u, v) ==
    IF rangeGuard(g, u, v) THEN FALSE
    ELSE \E k \in 1 .. Len(g.adjList[u]) : g.adjList[u][k][1] = v

\* Graph::edgeExists
edgeExists(g, u, v) ==
    IF rangeGuard(g, u, v) THEN FALSE
    ELSE g.adjMatrix[u][v] # 0

\* Graph::getNeighbors
getNeighbors(g, u) ==
    IF u >= g.V THEN << >>
    ELSE [k \in 1 .. Len(g.adjList[u]) |-> g.adjList[u][k][1]]

\* Graph::outDegree
outDegree(g, u) == IF u >= g.V THEN 0 ELSE Len(g.adjList[u])

\* Graph::clear
clear(g) ==
    [g EXCEPT !.adjList = [i \in Verts(g.V) |-> << >>],
              !.adjMatrix = [i \in Verts(g.V) |-> [j \in Verts(g.V) |-> 0]]]

\* An inner loop that adds a reversed entry only where the matrix of the
\* transposed graph has none yet.
RECURSIVE transposeEdgesOnce(_, _, _, _)
transposeEdgesOnce(g, t, u, k) ==
    IF k > Len(g.adjList[u]) THEN t
    ELSE transposeEdgesOnce(g,
            IF edgeExists(t, g.adjList[u][k][1], u) THEN t
            ELSE addEdge(t, g.adjList[u][k][1], u, g.adjList[u][k][2]),
            u, k + 1)

\* The inner loop of getTranspose over adjList[u], from position k.
RECURSIVE transposeEdges(_, _, _, _)
transposeEdges(g, t, u, k) ==
    IF k > Len(g.adjList[u]) THEN t
    ELSE transposeEdges(g,
            addEdge(t, g.adjList[u][k][1], u, g.adjList[u][k][2]), u, k + 1)

\* The outer loop of getTranspose, from vertex u.
RECURSIVE transposeFrom(_, _, _)
transposeFrom(g, t, u) ==
    IF u >= g.V THEN t
    ELSE transposeFrom(g, transposeEdges(g, t, u, 1), u + 1)

\* A transposition that leaves out the edges of vertex 0.
transposeTail(g) == transposeFrom(g, Graph(g.V), 1)

\* Graph::getTranspose
getTranspose(g) == transposeFrom(g, Graph(g.V), 0)

\* Number of entries of the adjacency list.
RECURSIVE countEntries(_, _)
countEntries(g, u) ==
    IF u >= g.V THEN 0 ELSE Len(g.adjList[u]) + countEntries(g, u + 1)

\* ------------------------------------------------------ BFS, DFS
\* The for loop of BFS over adjList[u] from position k. st = [visited, q,
\* out]; out is what has been printed.
RECURSIVE bfsEdges(_, _, _, _)
bfsEdges(g, st, u, k) ==
    IF k > Len(g.adjList[u]) THEN st
    ELSE LET v == g.adjList[u][k][1]
         IN  bfsEdges(g,
                IF ~st.visited[v]
                THEN [st EXCEPT !.visited[v] = TRUE, !.q = Append(@, v)]
                ELSE st,
                u, k + 1)

\* The while loop of BFS.
RECURSIVE bfsLoop(_, _)
bfsLoop(g, st) ==
    IF st.q = << >> THEN st.out
    ELSE LET u == Head(st.q)
         IN  bfsLoop(g,
                bfsEdges(g, [st EXCEPT !.q = Tail(@), !.out = Append(@, u)],
                         u, 1))

\* Graph::BFS: the vertices in the order they are printed.
BFS(g, start) ==
    bfsLoop(g, [visited |-> [[i \in Verts(g.V) |-> FALSE] EXCEPT ![start] = TRUE],
                q |-> <<start>>, out |-> << >>])

\* Graph::dfsUtil and its loop over adjList[v] from position k.
\* st = [visited, out].
RECURSIVE dfsUtil(_, _, _)
RECURSIVE dfsUtilEdges(_, _, _, _)
dfsUtilEdges(g, st, v, k) ==
    IF k > Len(g.adjList[v]) THEN st
    ELSE dfsUtilEdges(g,
            IF ~st.visited[g.adjList[v][k][1]]
            THEN dfsUtil(g, st, g.adjList[v][k][1])
            ELSE st,
            v, k + 1)

dfsUtil(g, st, v) ==
    dfsUtilEdges(g, [st EXCEPT !.visited[v] = TRUE, !.out = Append(@, v)], v, 1)

\* The elements of S in increasing order.
RECURSIVE ascending(_)
ascending(S) ==
    IF S = {} THEN << >>
    ELSE LET least == CHOOSE x \in S : \A y \in S : x <= y
         IN  <<least>> \o ascending(S \ {least})

\* A DFS that prints start and then what it visits by vertex id.
DFSByVertexId(g, start) ==
    LET out == dfsUtil(g, [visited |-> [i \in Verts(g.V) |-> FALSE],
                           out |-> << >>], start).out
    IN  <<start>> \o ascending({out[k] : k \in 2 .. Len(out)})

\* Graph::DFS: the vertices in the order they are printed.
DFS(g, start) ==
    dfsUtil(g, [visited |-> [i \in Verts(g.V) |-> FALSE], out |-> << >>],
            start).out

\* ------------------------------------------------------ hasCycleUndirected
\* dfsUndirectedCycleUtil and its loop over adj[v] from position k.
\* st = [visited, found]; found is the return true.
RECURSIVE dfsUndirectedCycleUtil(_, _, _, _)
RECURSIVE dfsUndirectedCycleEdges(_, _, _, _, _)
dfsUndirectedCycleEdges(g, st, v, parent, k) ==
    IF st.found \/ k > Len(g.adjList[v]) THEN st
    ELSE LET u == g.adjList[v][k][1]
         IN  IF ~st.visited[u]
             THEN dfsUndirectedCycleEdges(g,
                     dfsUndirectedCycleUtil(g, st, u, v), v, parent, k + 1)
             ELSE IF u # parent THEN [st EXCEPT !.found = TRUE]
             ELSE dfsUndirectedCycleEdges(g, st, v, parent, k + 1)

dfsUndirectedCycleUtil(g, st, v, parent) ==
    dfsUndirectedCycleEdges(g, [st EXCEPT !.visited[v] = TRUE], v, parent, 1)

\* The loop of hasCycleUndirected over the vertices i >= from.
RECURSIVE undirectedCycleFrom(_, _, _)
undirectedCycleFrom(g, st, from) ==
    IF st.found THEN TRUE
    ELSE IF from >= g.V THEN FALSE
    ELSE undirectedCycleFrom(g,
            IF ~st.visited[from]
            THEN dfsUndirectedCycleUtil(g, st, from, -1)
            ELSE st,
            from + 1)

\* Graph::hasCycleUndirected
hasCycleUndirected(g) ==
    undirectedCycleFrom(g,
        [visited |-> [i \in Verts(g.V) |-> FALSE], found |-> FALSE], 0)

\* ------------------------------------------------------ topologicalSort
\* The first loop of topologicalSort from position k of adjList[u]:
\* inDegree[edge.first]++ for every entry.
RECURSIVE inDegreeFrom(_, _, _, _)
inDegreeFrom(g, inDegree, u, k) ==
    IF u >= g.V THEN inDegree
    ELSE IF k > Len(g.adjList[u]) THEN inDegreeFrom(g, inDegree, u + 1, 1)
    ELSE inDegreeFrom(g,
            [inDegree EXCEPT ![g.adjList[u][k][1]] = @ + 1], u, k + 1)

\* A seeding that pushes every vertex, whatever its in-degree.
seedEveryVertex(g, inDegree, q, from) == [k \in 1 .. g.V |-> k - 1]

\* The second loop: push every i >= from with inDegree[i] == 0, in id order.
RECURSIVE seedQueue(_, _, _, _)
seedQueue(g, inDegree, q, from) ==
    IF from >= g.V THEN q
    ELSE seedQueue(g, inDegree,
            IF inDegree[from] = 0 THEN Append(q, from) ELSE q, from + 1)

\* The for loop over adjList[u] inside the while loop, from position k:
\* if (--inDegree[v] == 0) q.push(v). st = [inDegree, q].
RECURSIVE kahnEdges(_, _, _, _)
kahnEdges(g, st, u, k) ==
    IF k > Len(g.adjList[u]) THEN st
    ELSE LET v == g.adjList[u][k][1]
             d == st.inDegree[v] - 1
         IN  kahnEdges(g,
                [inDegree |-> [st.inDegree EXCEPT ![v] = d],
                 q |-> IF d = 0 THEN Append(st.q, v) ELSE st.q],
                u, k + 1)

\* The while loop: pop the front, emit it, release its neighbours.
RECURSIVE kahnLoop(_, _, _)
kahnLoop(g, st, topo) ==
    IF st.q = << >> THEN topo
    ELSE kahnLoop(g,
            kahnEdges(g, [inDegree |-> st.inDegree, q |-> Tail(st.q)],
                      Head(st.q), 1),
            Append(topo, Head(st.q)))

\* A return statement without the size test.
topoUnchecked(g, topo) == topo

\* The return statement: topo.size() == V ? topo : vector<int>()
topoResult(g, topo) == IF Len(topo) = g.V THEN topo ELSE << >>

\* Graph::topologicalSort
topologicalSort(g) ==
    LET inDegree == inDegreeFrom(g, [i \in Verts(g.V) |-> 0], 0, 1)
    IN  topoResult(g,
            kahnLoop(g, [inDegree |-> inDegree,
                         q |-> seedQueue(g, inDegree, << >>, 0)], << >>))

\* ------------------------------------------------------ hasCycleDirected
\* A return that leaves v on the recursion stack.
keepOnStack(st, v) == st

\* The end of dfsDirectedCycleUtil(v): recStack[v] = false; return false.
leaveStack(st, v) == [st EXCEPT !.recStack[v] = FALSE]

\* dfsDirectedCycleUtil and its loop over adj[v] from position k.
\* st = [visited, recStack, found]; found is the value true being returned
\* through the calls.
RECURSIVE dfsDirectedCycleUtil(_, _, _)
RECURSIVE dfsDirectedCycleEdges(_, _, _, _)
dfsDirectedCycleEdges(g, st, v, k) ==
    IF st.found THEN st
    ELSE IF k > Len(g.adjList[v]) THEN leaveStack(st, v)
    ELSE LET u == g.adjList[v][k][1]
         IN  IF ~st.visited[u]
             THEN dfsDirectedCycleEdges(g, dfsDirectedCycleUtil(g, st, u),
                                        v, k + 1)
             ELSE IF st.recStack[u] THEN [st EXCEPT !.found = TRUE]
             ELSE dfsDirectedCycleEdges(g, st, v, k + 1)

dfsDirectedCycleUtil(g, st, v) ==
    dfsDirectedCycleEdges(g,
        [st EXCEPT !.visited[v] = TRUE, !.recStack[v] = TRUE], v, 1)

\* The loop of hasCycleDirected over the vertices i >= from.
RECURSIVE cycleFrom(_, _, _)
cycleFrom(g, st, from) ==
    IF st.found THEN TRUE
    ELSE IF from >= g.V THEN FALSE
    ELSE cycleFrom(g,
            IF ~st.visited[from] THEN dfsDirectedCycleUtil(g, st, from)
            ELSE st,
            from + 1)

\* Graph::hasCycleDirected
hasCycleDirected(g) ==
    cycleFrom(g, [visited |-> [i \in Verts(g.V) |-> FALSE],
                  recStack |-> [i \in Verts(g.V) |-> FALSE],
                  found |-> FALSE], 0)

\* ------------------------------------------------------ countConnectedComponents
\* A dfs that marks u and visits nothing.
ccMarkOnly(g, visited, u) == [visited EXCEPT ![u] = TRUE]

\* The lambda dfs of countConnectedComponents and its loop over adjList[u]
\* from position k.
RECURSIVE ccDfs(_, _, _)
RECURSIVE ccDfsEdges(_, _, _, _)
ccDfsEdges(g, visited, u, k) ==
    IF k > Len(g.adjList[u]) THEN visited
    ELSE ccDfsEdges(g,
            IF ~visited[g.adjList[u][k][1]]
            THEN ccDfs(g, visited, g.adjList[u][k][1])
            ELSE visited,
            u, k + 1)

ccDfs(g, visited, u) == ccDfsEdges(g, [visited EXCEPT ![u] = TRUE], u, 1)

\* The loop over the seeds i >= from. st = [visited, count].
RECURSIVE ccFrom(_, _, _)
ccFrom(g, st, from) ==
    IF from >= g.V THEN st.count
    ELSE ccFrom(g,
            IF ~st.visited[from]
            THEN [visited |-> ccDfs(g, st.visited, from),
                  count |-> st.count + 1]
            ELSE st,
            from + 1)

\* Graph::countConnectedComponents
countConnectedComponents(g) ==
    ccFrom(g, [visited |-> [i \in Verts(g.V) |-> FALSE], count |-> 0], 0)

\* ------------------------------------------------------ isBipartite
\* A colouring step that hands v the colour of u.
sameColour(c) == c

\* color[v] = 1 - color[u]
otherColour(c) == 1 - c

\* The for loop of isBipartite over adjList[u] from position k.
\* st = [color, q, bad]; bad is the return false.
RECURSIVE bipEdges(_, _, _, _)
bipEdges(g, st, u, k) ==
    IF st.bad \/ k > Len(g.adjList[u]) THEN st
    ELSE LET v == g.adjList[u][k][1]
         IN  IF st.color[v] = -1
             THEN bipEdges(g,
                     [st EXCEPT !.color[v] = otherColour(st.color[u]),
                                !.q = Append(@, v)],
                     u, k + 1)
             ELSE IF st.color[v] = st.color[u] THEN [st EXCEPT !.bad = TRUE]
             ELSE bipEdges(g, st, u, k + 1)

\* The while loop of isBipartite.
RECURSIVE bipLoop(_, _)
bipLoop(g, st) ==
    IF st.bad \/ st.q = << >> THEN st
    ELSE bipLoop(g, bipEdges(g, [st EXCEPT !.q = Tail(@)], Head(st.q), 1))

\* The loop over the vertices i >= from.
RECURSIVE bipFrom(_, _, _)
bipFrom(g, st, from) ==
    IF st.bad THEN FALSE
    ELSE IF from >= g.V THEN TRUE
    ELSE bipFrom(g,
            IF st.color[from] = -1
            THEN bipLoop(g, [st EXCEPT !.color[from] = 0,
                                       !.q = Append(@, from)])
            ELSE st,
            from + 1)

\* Graph::isBipartite
isBipartite(g) ==
    bipFrom(g, [color |-> [i \in Verts(g.V) |-> -1], q |-> << >>,
                bad |-> FALSE], 0)

\* ------------------------------------------------------ getSCCs
\* dfsFillOrder and its loop over adj[u] from position k.
\* st = [visited, Stack]; the top of the stack is the last element.
RECURSIVE dfsFillOrder(_, _, _)
RECURSIVE dfsFillEdges(_, _, _, _)
dfsFillEdges(g, st, u, k) ==
    IF k > Len(g.adjList[u]) THEN st
    ELSE dfsFillEdges(g,
            IF ~st.visited[g.adjList[u][k][1]]
            THEN dfsFillOrder(g, st, g.adjList[u][k][1])
            ELSE st,
            u, k + 1)

\* A dfsFillOrder that pushes u before it visits u's neighbours.
dfsFillOnEntry(g, st, u) ==
    dfsFillEdges(g, [st EXCEPT !.visited[u] = TRUE, !.Stack = Append(@, u)],
                 u, 1)

dfsFillOrder(g, st, u) ==
    LET done == dfsFillEdges(g, [st EXCEPT !.visited[u] = TRUE], u, 1)
    IN  [done EXCEPT !.Stack = Append(@, u)]

\* dfsCollect and its loop over revGraph.getNeighbors(u) from position k.
\* st = [visited, component].
RECURSIVE dfsCollect(_, _, _)
RECURSIVE dfsCollectEdges(_, _, _, _)
dfsCollectEdges(revGraph, st, nbrs, k) ==
    IF k > Len(nbrs) THEN st
    ELSE dfsCollectEdges(revGraph,
            IF ~st.visited[nbrs[k]] THEN dfsCollect(revGraph, st, nbrs[k])
            ELSE st,
            nbrs, k + 1)

dfsCollect(revGraph, st, u) ==
    dfsCollectEdges(revGraph,
        [visited |-> [st.visited EXCEPT ![u] = TRUE],
         component |-> Append(st.component, u)],
        getNeighbors(revGraph, u), 1)

\* Step 1 of getSCCs: dfsFillOrder from every unvisited i >= from.
RECURSIVE fillAll(_, _, _)
fillAll(g, st, from) ==
    IF from >= g.V THEN st
    ELSE fillAll(g,
            IF ~st.visited[from] THEN dfsFillOrder(g, st, from) ELSE st,
            from + 1)

\* Step 3 of getSCCs: pop the stack; collect from every unvisited vertex.
RECURSIVE collectAll(_, _, _, _)
collectAll(revGraph, Stack, visited, sccs) ==
    IF Stack = << >> THEN sccs
    ELSE LET u == Stack[Len(Stack)]
             rest == SubSeq(Stack, 1, Len(Stack) - 1)
             st == dfsCollect(revGraph,
                       [visited |-> visited, component |-> << >>], u)
         IN  IF visited[u] THEN collectAll(revGraph, rest, visited, sccs)
             ELSE collectAll(revGraph, rest, st.visited,
                             Append(sccs, st.component))

\* Step 3 on the graph itself.
sccSameGraph(g) == g

\* The graph step 3 walks: getTranspose() of the graph.
sccGraph(g) == getTranspose(g)

\* Graph::getSCCs
getSCCs(g) ==
    LET none == [i \in Verts(g.V) |-> FALSE]
        filled == fillAll(g, [visited |-> none, Stack |-> << >>], 0)
    IN  collectAll(sccGraph(g), filled.Stack, none, << >>)

\* ------------------------------------------------------ priority queue
\* priority_queue<pair<int,int>, vector<...>, greater<...>>: a multiset of
\* <<key, vertex>> pairs, kept as a sequence; top() is a least pair in the
\* lexicographic order of pair.
pairLess(a, b) == a[1] < b[1] \/ (a[1] = b[1] /\ a[2] < b[2])

\* The position of the element that was pushed first.
pqFront(pq) == 1

pqTop(pq) ==
    CHOOSE k \in 1 .. Len(pq) : \A j \in 1 .. Len(pq) : ~pairLess(pq[j], pq[k])

pqPop(pq) ==
    LET k == pqTop(pq)
    IN  SubSeq(pq, 1, k - 1) \o SubSeq(pq, k + 1, Len(pq))

\* ------------------------------------------------------ dijkstra
\* The sum of the negative weights of the adjacency list: no walk without
\* a repeated edge weighs less.
RECURSIVE negativeSum(_, _, _)
negativeSum(g, u, k) ==
    IF u >= g.V THEN 0
    ELSE IF k > Len(g.adjList[u]) THEN negativeSum(g, u + 1, 1)
    ELSE (IF g.adjList[u][k][2] < 0 THEN g.adjList[u][k][2] ELSE 0)
         + negativeSum(g, u, k + 1)

\* A test that accepts only the first distance found for v.
relaxesUnseen(dist, u, v, weight) == dist[u] # INF /\ dist[v] = INF

\* A test that adds the weight to dist[u] whatever dist[u] is.
relaxesUnguarded(dist, u, v, weight) == dist[u] + weight < dist[v]

\* The test of a relaxation: dist[u] != INF && dist[u] + weight < dist[v]
relaxes(dist, u, v, weight) == dist[u] # INF /\ dist[u] + weight < dist[v]

\* The for loop of dijkstra over adjList[u] from position k.
\* st = [dist, pq, overflow, floor], floor being negativeSum of the graph.
\* A distance below floor comes from a walk round a cycle of negative
\* weight, which the while loop then follows until dist[u] + weight leaves
\* the range of int: signed overflow, which is undefined. The run is cut
\* there with overflow set.
RECURSIVE dijkstraEdges(_, _, _, _)
dijkstraEdges(g, st, u, k) ==
    IF k > Len(g.adjList[u]) \/ st.overflow THEN st
    ELSE LET v == g.adjList[u][k][1]
             weight == g.adjList[u][k][2]
         IN  IF ~relaxes(st.dist, u, v, weight)
             THEN dijkstraEdges(g, st, u, k + 1)
             ELSE IF st.dist[u] + weight < st.floor
             THEN [st EXCEPT !.overflow = TRUE]
             ELSE dijkstraEdges(g,
                     [st EXCEPT !.dist[v] = st.dist[u] + weight,
                                !.pq = Append(@, <<st.dist[u] + weight, v>>)],
                     u, k + 1)

\* A test that also skips an entry equal to the recorded distance.
staleOrEqual(d, dist, u) == d >= dist[u]

\* The test that skips a stale entry: if (d > dist[u]) continue;
stale(d, dist, u) == d > dist[u]

\* The while loop of dijkstra.
RECURSIVE dijkstraLoop(_, _)
dijkstraLoop(g, st) ==
    IF st.pq = << >> \/ st.overflow THEN st
    ELSE LET top == st.pq[pqTop(st.pq)]
             popped == [st EXCEPT !.pq = pqPop(st.pq)]
         IN  IF stale(top[1], st.dist, top[2]) THEN dijkstraLoop(g, popped)
             ELSE dijkstraLoop(g, dijkstraEdges(g, popped, top[2], 1))

\* Graph::dijkstra: [dist, overflow].
dijkstra(g, start) ==
    LET st == dijkstraLoop(g,
                [dist |-> [[i \in Verts(g.V) |-> INF] EXCEPT ![start] = 0],
                 pq |-> <<<<0, start>>>>,
                 overflow |-> FALSE,
                 floor |-> negativeSum(g, 0, 1)])
    IN  [dist |-> st.dist, overflow |-> st.overflow]

\* ------------------------------------------------------ bellmanFord
\* One pass over every edge, from position k of adjList[u].
RECURSIVE bfPass(_, _, _, _)
bfPass(g, dist, u, k) ==
    IF u >= g.V THEN dist
    ELSE IF k > Len(g.adjList[u]) THEN bfPass(g, dist, u + 1, 1)
    ELSE LET v == g.adjList[u][k][1]
             weight == g.adjList[u][k][2]
         IN  bfPass(g,
                IF relaxes(dist, u, v, weight)
                THEN [dist EXCEPT ![v] = dist[u] + weight] ELSE dist,
                u, k + 1)

\* A single relaxing pass, whatever V is.
bfOnePass(g, dist, i) == bfPass(g, dist, 0, 1)

\* for (int i = 1; i < V; ++i): the passes from i on (dist has size V, so
\* i < V is i \in DOMAIN dist).
RECURSIVE bfPasses(_, _, _)
bfPasses(g, dist, i) ==
    IF i \notin DOMAIN dist THEN dist
    ELSE bfPasses(g, bfPass(g, dist, 0, 1), i + 1)

\* The check pass: some edge still relaxes.
bfNegativeCycle(g, dist) ==
    \E u \in Verts(g.V) : \E k \in 1 .. Len(g.adjList[u]) :
        relaxes(dist, u, g.adjList[u][k][1], g.adjList[u][k][2])

\* Graph::bellmanFord: [dist, neg] for pair<vector<int>, bool>.
bellmanFord(g, start) ==
    LET dist == bfPasses(g,
                    [[i \in Verts(g.V) |-> INF] EXCEPT ![start] = 0], 1)
    IN  [dist |-> dist, neg |-> bfNegativeCycle(g, dist)]

\* ------------------------------------------------------ floydWarshall
\* The seeding loop: dist[u][edge.first] = edge.second for every entry, in
\* list order.
RECURSIVE fwSeed(_, _, _, _)
fwSeed(g, dist, u, k) ==
    IF u >= g.V THEN dist
    ELSE IF k > Len(g.adjList[u]) THEN fwSeed(g, dist, u + 1, 1)
    ELSE fwSeed(g,
            [dist EXCEPT ![u][g.adjList[u][k][1]] = g.adjList[u][k][2]],
            u, k + 1)

\* dist before the seeding loop: INF, and 0 on the diagonal.
fwInit(n) == [i \in Verts(n) |-> [j \in Verts(n) |-> IF i = j THEN 0 ELSE INF]]

\* The body of the triple loop.
fwRelax(dist, k, i, j) ==
    IF dist[i][k] # INF /\ dist[k][j] # INF /\ dist[i][k] + dist[k][j] < dist[i][j]
    THEN [dist EXCEPT ![i][j] = dist[i][k] + dist[k][j]]
    ELSE dist

\* The three nested loops, each from its index on (dist has size V, so
\* j < V is j \in DOMAIN dist).
RECURSIVE fwLoopJ(_, _, _, _)
fwLoopJ(dist, k, i, j) ==
    IF j \notin DOMAIN dist THEN dist
    ELSE fwLoopJ(fwRelax(dist, k, i, j), k, i, j + 1)

RECURSIVE fwLoopI(_, _, _)
fwLoopI(dist, k, i) ==
    IF i \notin DOMAIN dist THEN dist
    ELSE fwLoopI(fwLoopJ(dist, k, i, 0), k, i + 1)

RECURSIVE fwLoop(_, _)
fwLoop(dist, k) ==
    IF k \notin DOMAIN dist THEN dist
    ELSE fwLoop(fwLoopI(dist, k, 0), k + 1)

\* Graph::floydWarshall
floydWarshall(g) == fwLoop(fwSeed(g, fwInit(g.V), 0, 1), 0)

\* ------------------------------------------------------ primMST
\* The for loop of primMST over adjList[u] from position k. st = [key,
\* inMST, pq, totalWeight].
RECURSIVE primEdges(_, _, _, _)
primEdges(g, st, u, k) ==
    IF k > Len(g.adjList[u]) THEN st
    ELSE LET v == g.adjList[u][k][1]
             weight == g.adjList[u][k][2]
         IN  primEdges(g,
                IF ~st.inMST[v] /\ weight < st.key[v]
                THEN [st EXCEPT !.key[v] = weight,
                                !.pq = Append(@, <<weight, v>>)]
                ELSE st,
                u, k + 1)

\* A step that marks u and leaves totalWeight alone.
primMark(st, u) == [st EXCEPT !.inMST[u] = TRUE]

\* What a popped vertex u that is not yet in the tree does before its edges
\* are scanned: inMST[u] = true; totalWeight += key[u].
primTake(st, u) ==
    [st EXCEPT !.inMST[u] = TRUE, !.totalWeight = @ + st.key[u]]

\* The while loop of primMST.
RECURSIVE primLoop(_, _)
primLoop(g, st) ==
    IF st.pq = << >> THEN st
    ELSE LET u == st.pq[pqTop(st.pq)][2]
             popped == [st EXCEPT !.pq = pqPop(st.pq)]
         IN  IF st.inMST[u] THEN primLoop(g, popped)
             ELSE primLoop(g, primEdges(g, primTake(popped, u), u, 1))

\* Graph::primMST
primMST(g) ==
    primLoop(g,
        [key |-> [[i \in Verts(g.V) |-> INF] EXCEPT ![0] = 0],
         inMST |-> [i \in Verts(g.V) |-> FALSE],
         pq |-> <<<<0, 0>>>>,
         totalWeight |-> 0]).totalWeight

\* ------------------------------------------------------ makeUndirected
\* What the range-for over adjList[u] yields at position k once a push_back
\* on adjList[u] itself has invalidated its iterators: the entry as it was
\* (no reallocation, or the freed buffer still intact) or another pair,
\* with a target below, in or above the range.
danglingReads(g, u, k) ==
    {g.adjList[u][k]} \cup {<<v, w>> : v \in -1 .. g.V, w \in UnitWeights}

\* The body of the inner loop of makeUndirected on the entry e read from
\* adjList[u]. st.g is the graph, st.calls the addEdge calls that took
\* effect, st.end the end of adjList[u] cached when the loop began,
\* st.valid whether the iterators over adjList[u] are still valid,
\* st.fault whether undefined behaviour was executed, st.stop whether the
\* run ended in an access outside the vectors.
muBody(st, u, e) ==
    IF e[1] < 0 THEN [st EXCEPT !.fault = TRUE, !.stop = TRUE]
    ELSE IF edgeExists(st.g, e[1], u) THEN st
    ELSE IF rangeGuard(st.g, e[1], u) THEN st
    ELSE [st EXCEPT !.g = addEdge(st.g, e[1], u, e[2]),
                    !.calls = Append(@, <<e[1], u, e[2]>>),
                    !.valid = @ /\ e[1] # u,
                    !.fault = @ \/ e[1] = u]

\* One iteration of the inner loop, at position k of adjList[u]: the runs
\* the run st continues as.
muStep(st, u, k) ==
    IF st.stop \/ k > st.end THEN {st}
    ELSE {muBody(st, u, e) :
            e \in IF st.valid THEN {st.g.adjList[u][k]}
                  ELSE danglingReads(st.g, u, k)}

\* The inner loop from position k on, for every run of S.
RECURSIVE muEdges(_, _, _)
muEdges(S, u, k) ==
    IF \A st \in S : st.stop \/ k > st.end THEN S
    ELSE muEdges(UNION {muStep(st, u, k) : st \in S}, u, k + 1)

\* for (const auto& edge : adjList[u]): begin and end are taken once.
muBegin(st, u) ==
    IF st.stop THEN st
    ELSE [st EXCEPT !.valid = TRUE, !.end = Len(st.g.adjList[u])]

\* The outer loop from vertex u on, for every run of S.
RECURSIVE muFrom(_, _, _)
muFrom(S, u, n) ==
    IF u >= n THEN S
    ELSE muFrom(muEdges({muBegin(st, u) : st \in S}, u, 1), u + 1, n)

\* Graph::makeUndirected: the outcomes of one call.
makeUndirected(g) ==
    muFrom({[g |-> g, calls |-> << >>, end |-> 0, valid |-> TRUE,
             fault |-> FALSE, stop |-> FALSE]}, 0, g.V)

\* ------------------------------------------------------ history
\* The addEdge calls not since removed, per source vertex, in call order:
\* what the adjacency list is said to hold.
histAdd(h, u, v, w) == [h EXCEPT ![u] = Append(@, <<v, w>>)]

histRemove(h, u, v) == [h EXCEPT ![u] = SelectSeq(@, LAMBDA e : e[1] # v)]

histRemoveVertex(h, v) ==
    [i \in DOMAIN h |-> IF i = v THEN << >>
                        ELSE SelectSeq(h[i], LAMBDA e : e[1] # v)]

RECURSIVE histAddAll(_, _, _)
histAddAll(h, calls, k) ==
    IF k > Len(calls) THEN h
    ELSE histAddAll(histAdd(h, calls[k][1], calls[k][2], calls[k][3]),
                    calls, k + 1)

inRange(n, u, v) == u \in Verts(n) /\ v \in Verts(n)

\* ------------------------------------------------------ the test's graph
\* initializeGraph() of the test driver: its addEdge calls, in order.
ScenarioEdges ==
    << <<0, 1, 4>>, <<0, 2, 2>>, <<1, 2, 5>>, <<1, 3, 10>>, <<2, 4, 3>>,
       <<4, 3, 4>>, <<3, 5, 11>> >>

RECURSIVE addEdges(_, _, _)
addEdges(g, es, k) ==
    IF k > Len(es) THEN g
    ELSE addEdges(addEdge(g, es[k][1], es[k][2], es[k][3]), es, k + 1)

\* The graph initializeGraph() returns: Graph g(6) and the seven edges.
ScenarioGraph == addEdges(Graph(Len(ScenarioEdges) - 1), ScenarioEdges, 1)

\* ------------------------------------------------------ state machine
NoRes == [op |-> "none"]

\* The arguments the mutators are called with: negative, in range, too
\* large.
Args == -1 .. V

setGraph(g) ==
    /\ V' = g.V
    /\ adjList' = g.adjList
    /\ adjMatrix' = g.adjMatrix

Init ==
    /\ V \in 1 .. MaxV
    /\ adjList = Graph(V).adjList
    /\ adjMatrix = Graph(V).adjMatrix
    /\ hist = [u \in Verts(V) |-> << >>]
    /\ res = NoRes
    /\ fault = "none"

\* main() of the test driver: Graph g = initializeGraph() begins with
\* Graph g(6).
InitScenario ==
    /\ V = ScenarioGraph.V
    /\ adjList = Graph(V).adjList
    /\ adjMatrix = Graph(V).adjMatrix
    /\ hist = [u \in Verts(V) |-> << >>]
    /\ res = NoRes
    /\ fault = "none"

\* -- mutators. fault names the call that executed undefined behaviour;
\* nothing is modelled after it.
AddEdge(u, v, w) ==
    /\ fault = "none"
    /\ setGraph(addEdge(this, u, v, w))
    /\ hist' = IF inRange(V, u, v) THEN histAdd(hist, u, v, w) ELSE hist
    /\ fault' = IF outOfBounds(this, u, v) THEN "addEdge" ELSE "none"
    /\ res' = NoRes

RemoveEdge(u, v) ==
    /\ fault = "none"
    /\ setGraph(removeEdge(this, u, v))
    /\ hist' = IF inRange(V, u, v) THEN histRemove(hist, u, v) ELSE hist
    /\ fault' = IF outOfBounds(this, u, v) THEN "removeEdge" ELSE "none"
    /\ res' = NoRes

RemoveVertex(v) ==
    /\ fault = "none"
    /\ setGraph(removeVertex(this, v))
    /\ hist' = IF v \in Verts(V) THEN histRemoveVertex(hist, v) ELSE hist
    /\ fault' = IF v < 0 THEN "removeVertex" ELSE "none"
    /\ res' = NoRes

\* removeEdge(u, v) with the call and the graph before it kept in res.
RemoveEdgeCall(u, v) ==
    /\ RemoveEdge(u, v)!1
    /\ RemoveEdge(u, v)!2
    /\ RemoveEdge(u, v)!3
    /\ RemoveEdge(u, v)!4
    /\ res' = [op |-> "removeEdge", u |-> u, v |-> v, old |-> this]

\* removeVertex(v) with the call and the graph before it kept in res.
RemoveVertexCall(v) ==
    /\ RemoveVertex(v)!1
    /\ RemoveVertex(v)!2
    /\ RemoveVertex(v)!3
    /\ RemoveVertex(v)!4
    /\ res' = [op |-> "removeVertex", v |-> v, old |-> this]

Clear ==
    /\ fault = "none"
    /\ setGraph(clear(this))
    /\ hist' = [u \in Verts(V) |-> << >>]
    /\ fault' = "none"
    /\ res' = NoRes

MakeUndirected ==
    /\ fault = "none"
    /\ \E o \in makeUndirected(this) :
          /\ setGraph(o.g)
          /\ hist' = histAddAll(hist, o.calls, 1)
          /\ fault' = IF o.fault THEN "makeUndirected" ELSE "none"
    /\ res' = NoRes

\* A query that empties the graph it has read.
queryAndClear(r) ==
    /\ fault = "none"
    /\ res' = r
    /\ setGraph(clear(this))
    /\ UNCHANGED <<hist, fault>>

\* makeUndirected() with the call and the graph before it kept in res.
MakeUndirectedCall ==
    /\ MakeUndirected!1
    /\ MakeUndirected!2
    /\ res' = [op |-> "makeUndirected", old |-> this]

\* -- queries: the graph is left as it is, res takes the value returned.
query(r) ==
    /\ fault = "none"
    /\ res' = r
    /\ UNCHANGED <<V, adjList, adjMatrix, hist, fault>>

TopologicalSort ==
    query([op |-> "topologicalSort", val |-> topologicalSort(this)])

GetSCCs == query([op |-> "getSCCs", val |-> getSCCs(this)])

HasCycleDirected ==
    query([op |-> "hasCycleDirected", val |-> hasCycleDirected(this)])

GetTranspose == query([op |-> "getTranspose", val |-> getTranspose(this)])

FloydWarshall == query([op |-> "floydWarshall", val |-> floydWarshall(this)])

PrimMST == query([op |-> "primMST", val |-> primMST(this)])

BellmanFord(start) ==
    query([op |-> "bellmanFord", start |-> start,
           val |-> bellmanFord(this, start)])

CallBFS(start) ==
    query([op |-> "BFS", start |-> start, val |-> BFS(this, start)])

CallDFS(start) ==
    query([op |-> "DFS", start |-> start, val |-> DFS(this, start)])

HasCycleUndirected ==
    query([op |-> "hasCycleUndirected", val |-> hasCycleUndirected(this)])

EdgeExists(u, v) ==
    query([op |-> "edgeExists", u |-> u, v |-> v,
           val |-> edgeExists(this, u, v)])

GetNeighbors(u) ==
    query([op |-> "getNeighbors", u |-> u, val |-> getNeighbors(this, u)])

OutDegree(u) ==
    query([op |-> "outDegree", u |-> u, val |-> outDegree(this, u)])

IsBipartite == query([op |-> "isBipartite", val |-> isBipartite(this)])

CountConnectedComponents ==
    query([op |-> "countConnectedComponents",
           val |-> countConnectedComponents(this)])

Dijkstra(start) ==
    /\ fault = "none"
    /\ LET r == dijkstra(this, start)
       IN  /\ res' = [op |-> "dijkstra", start |-> start, val |-> r.dist]
           /\ fault' = IF r.overflow THEN "dijkstra" ELSE "none"
    /\ UNCHANGED <<V, adjList, adjMatrix, hist>>

\* -- building a graph: addEdge calls with in-range vertices.
Room == countEntries(this, 0) < MaxEdges

Build(W) ==
    /\ Room
    /\ \E u \in Verts(V), v \in Verts(V), w \in W : AddEdge(u, v, w)

\* The test's graph: any of the seven edges not yet in the list.
AddScenarioEdge ==
    \E k \in 1 .. Len(ScenarioEdges) :
        LET e == ScenarioEdges[k]
        IN  /\ \A j \in 1 .. Len(adjList[e[1]]) :
                  adjList[e[1]][j] # <<e[2], e[3]>>
            /\ AddEdge(e[1], e[2], e[3])

\* -- the mutators, with vertices in range.
NextStore ==
    \/ Build(NonNegWeights)
    \/ \E u \in Verts(V), v \in Verts(V) : RemoveEdge(u, v)
    \/ \E v \in Verts(V) : RemoveVertex(v)
    \/ Clear
    \/ countEntries(this, 0) <= MaxEdges /\ MakeUndirected

SpecStore == Init /\ [][NextStore]_vars

\* -- the mutators, with every kind of argument.
Next ==
    \/ Room /\ \E u \in Args, v \in Args, w \in NonNegWeights : AddEdge(u, v, w)
    \/ \E u \in Args, v \in Args : RemoveEdge(u, v)
    \/ \E v \in Args : RemoveVertex(v)
    \/ Clear
    \/ countEntries(this, 0) <= MaxEdges /\ MakeUndirected

Spec == Init /\ [][Next]_vars

\* -- topological order and strongly connected components.
NextOrder ==
    \/ Build(UnitWeights)
    \/ TopologicalSort
    \/ GetSCCs
    \/ HasCycleDirected

SpecOrder == Init /\ [][NextOrder]_vars

\* -- transposition.
NextTranspose == Build(PairWeights) \/ GetTranspose

SpecTranspose == Init /\ [][NextTranspose]_vars

\* -- single-source shortest paths on non-negative weights: a graph is
\* built, queried from one start, and built further.
NextDijkstra ==
    \/ Build(NonNegWeights)
    \/ res = NoRes /\ \E s \in Verts(V) : Dijkstra(s)

SpecDijkstra == Init /\ [][NextDijkstra]_vars

\* -- dijkstra outside its precondition: weights of both signs.
NextDijkstraSigned ==
    \/ Build(SignedWeights)
    \/ res = NoRes /\ \E s \in Verts(V) : Dijkstra(s)

SpecDijkstraSigned == Init /\ [][NextDijkstraSigned]_vars

\* -- the three distance algorithms on weights of both signs.
NextDistances ==
    \/ Build(SignedWeights)
    \/ res = NoRes /\ \E s \in Verts(V) : Dijkstra(s)
    \/ res = NoRes /\ \E s \in Verts(V) : BellmanFord(s)
    \/ res = NoRes /\ FloydWarshall

SpecDistances == Init /\ [][NextDistances]_vars

\* -- all-pairs shortest paths.
NextFloyd == Build(Weights) \/ FloydWarshall

SpecFloyd == Init /\ [][NextFloyd]_vars

\* -- one removeEdge or removeVertex call on a graph that was built.
NextRemove ==
    \/ res = NoRes /\ Build(PairWeights)
    \/ res = NoRes /\ \E u \in Verts(V), v \in Verts(V) : RemoveEdgeCall(u, v)
    \/ res = NoRes /\ \E v \in Verts(V) : RemoveVertexCall(v)

SpecRemove == Init /\ [][NextRemove]_vars

\* -- bellmanFord on graphs with weights of both signs.
NextBellman ==
    \/ Build(SignedWeights)
    \/ res = NoRes /\ \E start \in Verts(V) : BellmanFord(start)

SpecBellman == Init /\ [][NextBellman]_vars

\* -- graphs made undirected, their colouring and their components.
NextUndirected ==
    \/ Build(UnitWeights)
    \/ MakeUndirected
    \/ IsBipartite
    \/ CountConnectedComponents

SpecUndirected == Init /\ [][NextUndirected]_vars

\* -- every query, one between two changes of the graph, with arguments in
\* range and, where the code tests for it, too large.
NextQueries ==
    \/ Build(UnitWeights)
    \/ res = NoRes /\ \E start \in Verts(V) : CallBFS(start)
    \/ res = NoRes /\ \E start \in Verts(V) : CallDFS(start)
    \/ res = NoRes /\ TopologicalSort
    \/ res = NoRes /\ HasCycleDirected
    \/ res = NoRes /\ HasCycleUndirected
    \/ res = NoRes /\ CountConnectedComponents
    \/ res = NoRes /\ IsBipartite
    \/ res = NoRes /\ \E start \in Verts(V) : Dijkstra(start)
    \/ res = NoRes /\ \E start \in Verts(V) : BellmanFord(start)
    \/ res = NoRes /\ PrimMST
    \/ res = NoRes /\ GetSCCs
    \/ res = NoRes /\ FloydWarshall
    \/ res = NoRes /\ GetTranspose
    \/ res = NoRes /\ \E u \in 0 .. V, v \in 0 .. V : EdgeExists(u, v)
    \/ res = NoRes /\ \E u \in 0 .. V : GetNeighbors(u)
    \/ res = NoRes /\ \E u \in 0 .. V : OutDegree(u)

SpecQueries == Init /\ [][NextQueries]_vars

\* -- edgeExists on graphs with zero-weight edges, with arguments in range
\* and too large.
NextLookup ==
    \/ Build(NonNegWeights)
    \/ res = NoRes /\ \E u \in 0 .. V, v \in 0 .. V : EdgeExists(u, v)

SpecLookup == Init /\ [][NextLookup]_vars

\* -- one makeUndirected call on a graph that was built, zero weights
\* included.
NextSymmetrize ==
    \/ Build(NonNegWeights)
    \/ res = NoRes /\ MakeUndirectedCall

SpecSymmetrize == Init /\ [][NextSymmetrize]_vars

\* -- weighted graphs made undirected and their spanning trees.
NextSpanning ==
    \/ Build(PairWeights)
    \/ MakeUndirected
    \/ PrimMST

SpecSpanning == Init /\ [][NextSpanning]_vars

\* -- the test driver's graph, made undirected, and its spanning tree.
NextScenario == AddScenarioEdge \/ MakeUndirected \/ PrimMST

SpecScenario == InitScenario /\ [][NextScenario]_vars

\* ------------------------------------------------------ graph theory
\* The adjacency list as a relation: u has an entry to v.
Edge(g, u, v) == \E k \in 1 .. Len(g.adjList[u]) : g.adjList[u][k][1] = v

\* The vertices a walk from a vertex of S ends in.
RECURSIVE reachGrow(_, _)
reachGrow(g, S) ==
    LET T == S \cup {v \in Verts(g.V) : \E u \in S : Edge(g, u, v)}
    IN  IF T = S THEN S ELSE reachGrow(g, T)

ReachableFrom(g, s) == reachGrow(g, {s})

HasDirectedCycle(g) ==
    \E u \in Verts(g.V), v \in Verts(g.V) :
        Edge(g, u, v) /\ u \in ReachableFrom(g, v)

MutuallyReachable(g, u, v) ==
    v \in ReachableFrom(g, u) /\ u \in ReachableFrom(g, v)

Position(s, x) == CHOOSE k \in 1 .. Len(s) : s[k] = x

IsTopologicalOrder(g, s) ==
    /\ Len(s) = g.V
    /\ {s[k] : k \in 1 .. Len(s)} = Verts(g.V)
    /\ \A u \in Verts(g.V), v \in Verts(g.V) :
          Edge(g, u, v) => Position(s, u) < Position(s, v)

\* The places <<component, index>> where x occurs in a list of components.
Occurrences(sccs, x) ==
    UNION { {<<c, k>> : k \in {j \in 1 .. Len(sccs[c]) : sccs[c][j] = x}} :
            c \in 1 .. Len(sccs) }

SameComponent(sccs, u, v) ==
    \E c \in 1 .. Len(sccs) :
        /\ \E k \in 1 .. Len(sccs[c]) : sccs[c][k] = u
        /\ \E k \in 1 .. Len(sccs[c]) : sccs[c][k] = v

\* The weights of the entries u -> v.
EdgeWeights(g, u, v) ==
    {g.adjList[u][k][2] :
        k \in {j \in 1 .. Len(g.adjList[u]) : g.adjList[u][j][1] = v}}

Min(S) == CHOOSE x \in S : \A y \in S : x <= y

\* The ends <<v, d>> of the walks from s of at most n edges: the vertex a
\* walk ends in and its total weight. Every path has at most V-1 edges, and
\* with non-negative weights no walk weighs less than the path it contains.
RECURSIVE walkEnds(_, _, _)
walkEnds(g, s, n) ==
    IF n = 0 THEN {<<s, 0>>}
    ELSE LET P == walkEnds(g, s, n - 1)
         IN  P \cup UNION { {<<g.adjList[p[1]][k][1],
                               p[2] + g.adjList[p[1]][k][2]>> :
                                 k \in 1 .. Len(g.adjList[p[1]])} : p \in P }

\* The least weight among the walks of ends that end in v; INF without one.
PathDistance(ends, v) ==
    LET W == {p[2] : p \in {q \in ends : q[1] = v}}
    IN  IF W = {} THEN INF ELSE Min(W)

\* What testShortestPaths is expected to print for dijkstra(0).
ScenarioDistances ==
    [v \in Verts(ScenarioGraph.V) |-> <<0, 4, 2, 9, 5, 20>>[v + 1]]

ScenarioDijkstra == dijkstra(ScenarioGraph, 0)

\* How many entries of u's list are <<v, w>>.
EdgeCount(g, u, e) ==
    Cardinality({k \in 1 .. Len(g.adjList[u]) : g.adjList[u][k] = e})

Entries(g, u) == {g.adjList[u][k] : k \in 1 .. Len(g.adjList[u])}

\* g and h hold the same multiset of (u,v,w) entries.
SameEdgeMultiset(g, h) ==
    /\ g.V = h.V
    /\ \A u \in Verts(g.V) : \A e \in Entries(g, u) \cup Entries(h, u) :
          EdgeCount(g, u, e) = EdgeCount(h, u, e)

\* The test's seven edges, each in both directions and nothing else.
ScenarioUndirected(g) ==
    /\ countEntries(g, 0) = 2 * Len(ScenarioEdges)
    /\ \A k \in 1 .. Len(ScenarioEdges) :
          LET e == ScenarioEdges[k]
          IN  /\ EdgeCount(g, e[1], <<e[2], e[3]>>) = 1
              /\ EdgeCount(g, e[2], <<e[1], e[3]>>) = 1

\* The positions of the entries to v in a list.
EntriesTo(list, v) == {k \in 1 .. Len(list) : list[k][1] = v}

Max(S) == CHOOSE x \in S : \A y \in S : x >= y

\* The weight of the last entry to v in a list; 0 without one.
lastWeight(list, v) ==
    IF EntriesTo(list, v) = {} THEN 0 ELSE list[Max(EntriesTo(list, v))][2]

\* Every entry (u,v,w) has an entry (v,u,w).
Symmetric(g) ==
    \A u \in Verts(g.V) : \A e \in Entries(g, u) :
        <<u, e[2]>> \in Entries(g, e[1])

\* Graph(n) with the edges es entered in both directions.
Symmetrized(n, es) ==
    addEdges(addEdges(Graph(n), es, 1),
             [k \in 1 .. Len(es) |-> <<es[k][2], es[k][1], es[k][3]>>], 1)

FourCycle ==
    Symmetrized(4, << <<0, 1, 1>>, <<1, 2, 1>>, <<2, 3, 1>>, <<3, 0, 1>> >>)

Triangle == Symmetrized(3, << <<0, 1, 1>>, <<1, 2, 1>>, <<2, 0, 1>> >>)

TwoTriangles ==
    Symmetrized(6, << <<0, 1, 1>>, <<1, 2, 1>>, <<2, 0, 1>>,
                      <<3, 4, 1>>, <<4, 5, 1>>, <<5, 3, 1>> >>)

\* No edge joins two vertices of the same colour, for some colouring.
TwoColourable(g) ==
    \E c \in [Verts(g.V) -> {0, 1}] :
        \A u \in Verts(g.V), v \in Verts(g.V) : Edge(g, u, v) => c[u] # c[v]

\* The vertices joined to a vertex of S by edges taken in either direction.
RECURSIVE linkGrow(_, _)
linkGrow(g, S) ==
    LET T == S \cup {v \in Verts(g.V) :
                        \E u \in S : Edge(g, u, v) \/ Edge(g, v, u)}
    IN  IF T = S THEN S ELSE linkGrow(g, T)

ComponentOf(g, v) == linkGrow(g, {v})

Components(g) == {ComponentOf(g, v) : v \in Verts(g.V)}

\* A closed walk of negative total weight through a vertex that s reaches.
\* (A negative cycle has at most V edges.)
NegativeCycleReachable(g, s) ==
    \E c \in ReachableFrom(g, s) :
        \E p \in walkEnds(g, c, g.V) : p[1] = c /\ p[2] < 0

\* a is b with some entries taken out: the entries of a are entries of b in
\* the same order.
RECURSIVE IsSubsequence(_, _)
IsSubsequence(a, b) ==
    IF a = << >> THEN TRUE
    ELSE IF b = << >> THEN FALSE
    ELSE IF Head(a) = Head(b) THEN IsSubsequence(Tail(a), Tail(b))
    ELSE IsSubsequence(a, Tail(b))

\* list is old without its entries to v: nothing to v is left, and every
\* other entry is there as often as before, in the order of before.
StrippedOf(list, old, v) ==
    /\ \A k \in 1 .. Len(list) : list[k][1] # v
    /\ IsSubsequence(list, old)
    /\ \A k \in 1 .. Len(old) :
          old[k][1] # v =>
              Cardinality({j \in 1 .. Len(list) : list[j] = old[k]})
                  = Cardinality({j \in 1 .. Len(old) : old[j] = old[k]})

\* The undirected edges inside the set C of vertices: <<u, v, w>> with u < v
\* for an entry (u,v,w).
UndirectedEdges(g, C) ==
    UNION {{<<u, e[1], e[2]>> : e \in {x \in Entries(g, u) : u < x[1]}} :
             u \in C}

\* The sum of the weights of a set of <<u, v, w>> edges.
RECURSIVE TotalWeight(_)
TotalWeight(T) ==
    IF T = {} THEN 0
    ELSE LET e == CHOOSE x \in T : TRUE
         IN  e[3] + TotalWeight(T \ {e})

\* The vertices joined to a vertex of S by the edges of T.
RECURSIVE treeGrow(_, _)
treeGrow(T, S) ==
    LET N == S \cup {e[2] : e \in {x \in T : x[1] \in S}}
                \cup {e[1] : e \in {x \in T : x[2] \in S}}
    IN  IF N = S THEN S ELSE treeGrow(T, N)

\* The spanning trees of the component of vertex 0: |C| - 1 undirected edges
\* that join all of C.
SpanningTrees(g) ==
    LET C == ComponentOf(g, 0)
    IN  {T \in SUBSET UndirectedEdges(g, C) :
            Cardinality(T) = Cardinality(C) - 1 /\ treeGrow(T, {0}) = C}

MinimumSpanningWeight(g) == Min({TotalWeight(T) : T \in SpanningTrees(g)})

\* What the query recorded in r returns on g.
Requery(g, r) ==
    CASE r.op = "BFS" -> BFS(g, r.start)
      [] r.op = "DFS" -> DFS(g, r.start)
      [] r.op = "topologicalSort" -> topologicalSort(g)
      [] r.op = "hasCycleDirected" -> hasCycleDirected(g)
      [] r.op = "hasCycleUndirected" -> hasCycleUndirected(g)
      [] r.op = "countConnectedComponents" -> countConnectedComponents(g)
      [] r.op = "isBipartite" -> isBipartite(g)
      [] r.op = "dijkstra" -> dijkstra(g, r.start).dist
      [] r.op = "bellmanFord" -> bellmanFord(g, r.start)
      [] r.op = "primMST" -> primMST(g)
      [] r.op = "getSCCs" -> getSCCs(g)
      [] r.op = "floydWarshall" -> floydWarshall(g)
      [] r.op = "getTranspose" -> getTranspose(g)
      [] r.op = "edgeExists" -> edgeExists(g, r.u, r.v)
      [] r.op = "getNeighbors" -> getNeighbors(g, r.u)
      [] r.op = "outDegree" -> outDegree(g, r.u)

\* The vertices at most n hops from s.
RECURSIVE within(_, _, _)
within(g, s, n) ==
    IF n = 0 THEN {s}
    ELSE LET P == within(g, s, n - 1)
         IN  P \cup {v \in Verts(g.V) : \E u \in P : Edge(g, u, v)}

\* The least number of edges of a walk from s to v, v being reachable.
HopDistance(g, s, v) == Min({n \in 0 .. g.V : v \in within(g, s, n)})

\* The place of the first entry to v in a list.
FirstEntry(list, v) == Min(EntriesTo(list, v))

\* out holds each vertex reachable from s once and nothing else, s first.
VisitsReachable(g, s, out) ==
    /\ {out[k] : k \in 1 .. Len(out)} = ReachableFrom(g, s)
    /\ Len(out) = Cardinality(ReachableFrom(g, s))
    /\ out[1] = s

\* The places before k of the vertices with an edge to out[k].
Discoverers(g, out, k) == {j \in 1 .. k - 1 : Edge(g, out[j], out[k])}

\* Breadth-first order: hop distance never decreases; each vertex after the
\* first is discovered by the earliest vertex with an edge to it; vertices
\* come in the order of their discoverers and, under one discoverer, in the
\* order of its list.
IsBreadthFirst(g, s, out) ==
    /\ \A k \in 1 .. Len(out) - 1 :
          HopDistance(g, s, out[k]) <= HopDistance(g, s, out[k + 1])
    /\ \A k \in 2 .. Len(out) : Discoverers(g, out, k) # {}
    /\ \A k \in 2 .. Len(out), l \in 2 .. Len(out) :
          k < l =>
            LET p == Min(Discoverers(g, out, k))
                q == Min(Discoverers(g, out, l))
            IN  /\ p <= q
                /\ p = q => FirstEntry(g.adjList[out[p]], out[k])
                               < FirstEntry(g.adjList[out[p]], out[l])

\* Preorder of a depth-first search: each vertex after the first is entered
\* from the latest vertex before it with an edge to it; what lies between a
\* vertex and a child of it was entered from that vertex or after it; the
\* children of a vertex come in the order of its list.
IsPreorder(g, s, out) ==
    /\ \A k \in 2 .. Len(out) : Discoverers(g, out, k) # {}
    /\ \A k \in 2 .. Len(out), l \in 2 .. Len(out) :
          k < l =>
            LET p == Max(Discoverers(g, out, k))
                q == Max(Discoverers(g, out, l))
            IN  /\ q < k => q <= p
                /\ p = q => FirstEntry(g.adjList[out[p]], out[k])
                               < FirstEntry(g.adjList[out[p]], out[l])

\* No entry u->u and no two entries u->v.
IsSimple(g) ==
    \A u \in Verts(g.V) :
        /\ ~Edge(g, u, u)
        /\ \A v \in Verts(g.V) : Cardinality(EntriesTo(g.adjList[u], v)) <= 1

\* The edges of the underlying undirected graph.
UnderlyingEdges(g) ==
    {{p[1], p[2]} : p \in {q \in Verts(g.V) \X Verts(g.V) :
                               q[1] # q[2] /\ Edge(g, q[1], q[2])}}

\* A graph without a cycle has as many edges as it has vertices less
\* components; with a cycle it has more.
HasUndirectedCycle(g) ==
    Cardinality(UnderlyingEdges(g)) > g.V - Cardinality(Components(g))

\* A value that is INF itself or far from it: no sum of INF and a weight.
NotFromINF(x) == x = INF \/ (-(INF \div 2) < x /\ x < INF \div 2)

\* dist is INF on the vertices s does not reach, and no entry of it is a sum
\* with INF.
KeepsINF(g, s, dist) ==
    LET reached == ReachableFrom(g, s)
    IN  \A v \in Verts(g.V) :
            /\ NotFromINF(dist[v])
            /\ v \notin reached => dist[v] = INF
            /\ v \in reached => dist[v] # INF

\* The place in sccs of the component that holds x.
ComponentIndex(sccs, x) ==
    CHOOSE c \in 1 .. Len(sccs) : \E k \in 1 .. Len(sccs[c]) : sccs[c][k] = x

\* The stack of finishing times that step 1 of getSCCs fills, top last.
FinishingStack(g) ==
    fillAll(g, [visited |-> [i \in Verts(g.V) |-> FALSE], Stack |-> << >>],
            0).Stack

\* ------------------------------------------------------ properties
\* C1: topologicalSort() returns the empty sequence on a graph with a
\* directed cycle (a self-loop included), and otherwise a sequence that
\* holds every vertex 0..V-1 once with u before v for every edge (u,v).
C1_TopologicalSort ==
    res.op = "topologicalSort" =>
        IF HasDirectedCycle(this) THEN res.val = << >>
        ELSE IsTopologicalOrder(this, res.val)

\* A graph of three vertices with an edge from a higher to a lower vertex
\* has been sorted.
C1_Witness ==
    /\ res.op = "topologicalSort"
    /\ Len(res.val) = MaxV
    /\ \E u \in Verts(V), v \in Verts(V) : Edge(this, u, v) /\ u > v

\* C2: getSCCs() returns components in which every vertex of 0..V-1 occurs
\* exactly once overall, and two vertices share a component exactly when
\* each is reachable from the other.
C2_SCCPartition ==
    res.op = "getSCCs" =>
        /\ \A c \in 1 .. Len(res.val) : \A k \in 1 .. Len(res.val[c]) :
              res.val[c][k] \in Verts(V)
        /\ \A x \in Verts(V) : Cardinality(Occurrences(res.val, x)) = 1
        /\ \A u \in Verts(V), v \in Verts(V) :
              SameComponent(res.val, u, v) <=> MutuallyReachable(this, u, v)

\* A component of two vertices and a second component have been returned.
C2_Witness ==
    /\ res.op = "getSCCs"
    /\ Len(res.val) = 2
    /\ \E c \in 1 .. Len(res.val) : Len(res.val[c]) = 2

\* C3: on a graph with non-negative weights, dijkstra(start) is the distance
\* vector of bellmanFord(start), position by position, INF included, and
\* bellmanFord reports no negative cycle.
C3_DijkstraIsBellmanFord ==
    res.op = "dijkstra" =>
        LET bf == bellmanFord(this, res.start)
        IN  res.val = bf.dist /\ ~bf.neg

\* dijkstra has run on a graph with a self-loop on a vertex it reaches, a
\* vertex at a positive distance and a vertex it does not reach.
C3_Witness ==
    /\ res.op = "dijkstra"
    /\ \E v \in Verts(V) : res.val[v] = INF
    /\ \E v \in Verts(V) : res.val[v] > 0 /\ res.val[v] < INF
    /\ \E v \in Verts(V) : res.val[v] < INF /\ Edge(this, v, v)

\* C4: on a graph with non-negative weights, dijkstra(start)[v] is the least
\* total weight of a path from start to v, and INF exactly when v is not
\* reachable from start; on the test's graph dijkstra(0) is [0,4,2,9,5,20].
C4_DijkstraShortest ==
    /\ res.op = "dijkstra" =>
          LET ends == walkEnds(this, res.start, V - 1)
              reached == ReachableFrom(this, res.start)
          IN  \A v \in Verts(V) :
                  /\ res.val[v] = PathDistance(ends, v)
                  /\ res.val[v] = INF <=> v \notin reached
    /\ ScenarioDijkstra.dist = ScenarioDistances

\* dijkstra has found a vertex nearer than an edge from start to it says.
C4_Witness ==
    /\ res.op = "dijkstra"
    /\ \E v \in Verts(V) : \E w \in EdgeWeights(this, res.start, v) :
          res.val[v] < w /\ v # res.start

\* C5: floydWarshall()[i][i] is 0 for every vertex i, self-loops included.
C5_FloydDiagonalZero ==
    res.op = "floydWarshall" => \A i \in Verts(V) : res.val[i][i] = 0

\* C6: floydWarshall()[u][v] <= w for every entry (u,v,w) of the adjacency
\* list, each of several parallel entries included.
C6_FloydEdgeBound ==
    res.op = "floydWarshall" =>
        \A u \in Verts(V) : \A e \in Entries(this, u) :
            res.val[u][e[1]] <= e[2]

\* C7 as written: primMST() on the test's graph with every edge in both
\* directions returns 26.
C7_PrimScenarioAsWritten ==
    (res.op = "primMST" /\ ScenarioUndirected(this)) => res.val = 26

\* C7: primMST() on the test's graph with every edge in both directions
\* returns 24, the weight of the tree 0-2, 2-4, 0-1, 4-3, 3-5.
C7_PrimScenario ==
    (res.op = "primMST" /\ ScenarioUndirected(this)) => res.val = 24

\* primMST has run on the test's graph made undirected.
C7_Witness == res.op = "primMST" /\ ScenarioUndirected(this)

\* C8: getTranspose().getTranspose() holds the same multiset of (u,v,w)
\* entries as the graph, parallel edges and self-loops included.
C8_TransposeRoundTrip ==
    res.op = "getTranspose" => SameEdgeMultiset(getTranspose(res.val), this)

\* A graph with two parallel entries of different weights and a self-loop
\* has been transposed.
C8_Witness ==
    /\ res.op = "getTranspose"
    /\ \E u \in Verts(V), v \in Verts(V) :
          u # v /\ Cardinality(EdgeWeights(this, u, v)) = 2
    /\ \E u \in Verts(V) : Edge(this, u, u)

C10_OutOfRangeNoOp ==
    [][\A u \in Args, v \in Args :
          (~inRange(V, u, v)
             /\ ((\E w \in NonNegWeights : AddEdge(u, v, w)) \/ RemoveEdge(u, v)))
          => (fault' = "none" /\ UNCHANGED <<V, adjList, adjMatrix>>)]_vars

\* C11: hasCycleDirected() is true exactly when the graph has a directed
\* cycle, a self-loop included, wherever the cycle lies.
C11_HasCycleDirected ==
    res.op = "hasCycleDirected" => (res.val <=> HasDirectedCycle(this))

\* A cycle that vertex 0 does not reach has been reported.
C11_Witness ==
    /\ res.op = "hasCycleDirected"
    /\ res.val
    /\ \A u \in ReachableFrom(this, 0) : \A v \in Verts(V) :
          ~(Edge(this, u, v) /\ u \in ReachableFrom(this, v))

\* C12: on a graph with every edge in both directions isBipartite() is true
\* exactly when the vertices can be 2-coloured with no edge inside a colour;
\* true for the 4-cycle 0-1-2-3-0, false for a 3-cycle.
C12_IsBipartite ==
    /\ (res.op = "isBipartite" /\ Symmetric(this)) =>
          (res.val <=> TwoColourable(this))
    /\ isBipartite(FourCycle)
    /\ ~isBipartite(Triangle)

\* A symmetric graph of two components, one of them with an edge between
\* two vertices, has been found not bipartite.
C12_Witness ==
    /\ res.op = "isBipartite"
    /\ Symmetric(this)
    /\ ~res.val
    /\ Cardinality(Components(this)) = 2
    /\ \E u \in Verts(V), v \in Verts(V) : u # v /\ Edge(this, u, v)

\* C13: on a graph with every edge in both directions
\* countConnectedComponents() is the number of connected components of
\* the undirected graph, isolated vertices counted; 2 for two disjoint
\* triangles on 6 vertices.
C13_CountComponents ==
    /\ (res.op = "countConnectedComponents" /\ Symmetric(this)) =>
          res.val = Cardinality(Components(this))
    /\ countConnectedComponents(TwoTriangles) = 2

\* A symmetric graph with an edge and an isolated vertex has been counted.
C13_Witness ==
    /\ res.op = "countConnectedComponents"
    /\ Symmetric(this)
    /\ res.val = 2
    /\ \E u \in Verts(V), v \in Verts(V) : u # v /\ Edge(this, u, v)
    /\ \E u \in Verts(V) : Entries(this, u) = {}

\* C14: the flag of bellmanFord(start) is true exactly when a cycle of
\* negative total weight is reachable from start (false when the only
\* negative cycles are out of reach), and a distance for every vertex is
\* returned either way.
C14_BellmanFordFlag ==
    res.op = "bellmanFord" =>
        /\ res.val.neg <=> NegativeCycleReachable(this, res.start)
        /\ DOMAIN res.val.dist = Verts(V)

\* bellmanFord has run from a start that reaches another vertex but not the
\* negative cycle of the graph, and the flag is false.
C14_Witness ==
    /\ res.op = "bellmanFord"
    /\ ~res.val.neg
    /\ \E v \in Verts(V) : v # res.start /\ res.val.dist[v] < INF
    /\ \E c \in Verts(V) : NegativeCycleReachable(this, c)

\* C15: removeEdge(u,v) with u and v in range takes every entry to v out of
\* u's list and sets matrix[u][v] to 0; the other entries of u's list keep
\* their weights and order, and every other list, every other cell
\* (matrix[v][u] too) and V are as before.
C15_RemoveEdgeFrame ==
    res.op = "removeEdge" =>
        /\ StrippedOf(adjList[res.u], res.old.adjList[res.u], res.v)
        /\ adjMatrix[res.u][res.v] = 0
        /\ V = res.old.V
        /\ \A i \in Verts(V) : i # res.u => adjList[i] = res.old.adjList[i]
        /\ \A i \in Verts(V), j \in Verts(V) :
              <<i, j>> # <<res.u, res.v>> =>
                  adjMatrix[i][j] = res.old.adjMatrix[i][j]

\* Two parallel entries have been removed from a list that keeps an entry
\* placed between them.
C15_Witness ==
    /\ res.op = "removeEdge"
    /\ Len(res.old.adjList[res.u]) = 3
    /\ res.old.adjList[res.u][1][1] = res.v
    /\ res.old.adjList[res.u][3][1] = res.v
    /\ Len(adjList[res.u]) = 1

\* C16: after removeVertex(v) with v in range, v's list is empty, no list has
\* an entry to v, row v and column v of the matrix are 0, V is as before and
\* addEdge still accepts v; every entry and cell not incident to v is as
\* before.
C16_RemoveVertex ==
    res.op = "removeVertex" =>
        /\ adjList[res.v] = << >>
        /\ V = res.old.V
        /\ \A i \in Verts(V) :
              /\ adjMatrix[res.v][i] = 0
              /\ adjMatrix[i][res.v] = 0
              /\ i # res.v =>
                    StrippedOf(adjList[i], res.old.adjList[i], res.v)
              /\ addEdge(this, res.v, i, 1).adjList[res.v] = << <<i, 1>> >>
              /\ edgeExists(addEdge(this, i, res.v, 1), i, res.v)
        /\ \A i \in Verts(V), j \in Verts(V) :
              (i # res.v /\ j # res.v) =>
                  adjMatrix[i][j] = res.old.adjMatrix[i][j]

\* A vertex with an outgoing edge and an incoming edge has been removed, and
\* the list the incoming edge was in keeps another entry.
C16_Witness ==
    /\ res.op = "removeVertex"
    /\ res.old.adjList[res.v] # << >>
    /\ \E i \in Verts(V) :
          /\ i # res.v
          /\ adjList[i] # << >>
          /\ Len(adjList[i]) < Len(res.old.adjList[i])

SymmetricNow ==
    \A u \in Verts(V), v \in Verts(V) :
        /\ Edge(this, u, v) <=> Edge(this, v, u)
        /\ edgeExists(this, u, v) <=> edgeExists(this, v, u)

\* C18: when makeUndirected() has returned, u's list has an entry to v
\* exactly when v's list has one to u, edgeExists(u,v) = edgeExists(v,u), and
\* the entries there were before the call are in place with their weights.
C18_MakeUndirectedSymmetric ==
    [][(MakeUndirected /\ fault' = "none") =>
          /\ SymmetricNow'
          /\ \A u \in Verts(V) :
                SubSeq(adjList'[u], 1, Len(adjList[u])) = adjList[u]]_vars

\* C19: on a graph with every edge in both directions primMST() is the
\* total weight of a minimum spanning tree of the component of vertex 0:
\* of the whole graph when it is connected, of that component alone when it
\* is not.
C19_PrimComponent ==
    (res.op = "primMST" /\ Symmetric(this)) =>
        res.val = MinimumSpanningWeight(this)

\* primMST has run on a symmetric graph whose vertex 0 is joined to another
\* vertex but not to all, with an edge outside its component.
C19_Witness ==
    /\ res.op = "primMST"
    /\ Symmetric(this)
    /\ res.val > 0
    /\ \E u \in Verts(V) \ ComponentOf(this, 0) : Entries(this, u) # {}

C22_MakeUndirectedTerminates ==
    [][MakeUndirected =>
          /\ fault' = "none"
          /\ \A u \in Verts(V), v \in Verts(V) :
                Cardinality(EntriesTo(adjList'[u], v))
                    <= Cardinality(EntriesTo(adjList[u], v)) + 1]_vars

\* C23: dijkstra(start) runs to its end and returns a distance for every
\* vertex on every graph, with negative weights and with a cycle of negative
\* weight reachable from start as well.
C23_DijkstraReturns ==
    /\ fault # "dijkstra"
    /\ res.op = "dijkstra" => DOMAIN res.val = Verts(V)

C25_UndirectedCycle ==
    (res.op = "makeUndirected" /\ IsSimple(res.old)) =>
        (hasCycleUndirected(this) <=> HasUndirectedCycle(res.old))

\* C26: dijkstra, bellmanFord and floydWarshall relax only from a distance
\* that is not INF: a vertex or pair without a path keeps INF exactly, and
\* no value returned is a sum with INF.
C26_NoSumWithINF ==
    /\ (res.op = "dijkstra" /\ fault = "none") =>
          KeepsINF(this, res.start, res.val)
    /\ res.op = "bellmanFord" => KeepsINF(this, res.start, res.val.dist)
    /\ res.op = "floydWarshall" =>
          \A i \in Verts(V) : KeepsINF(this, i, res.val[i])

\* bellmanFord has run on a graph with an edge of negative weight from a
\* vertex that start does not reach to another such vertex.
C26_Witness ==
    /\ res.op = "bellmanFord"
    /\ \E u \in Verts(V) \ ReachableFrom(this, res.start) :
          \E e \in Entries(this, u) :
              /\ e[2] < 0
              /\ e[1] # u
              /\ res.val.dist[e[1]] = INF

\* C27: getSCCs() emits the components in the order in which their first
\* vertex leaves the finishing-time stack, a topological order of the
\* condensation: for an edge u->v between two components, the component
\* of u comes before the component of v.
C27_SCCOrder ==
    res.op = "getSCCs" =>
        /\ \A c \in 1 .. Len(res.val), d \in 1 .. Len(res.val) :
              c < d => Position(FinishingStack(this), res.val[c][1])
                         > Position(FinishingStack(this), res.val[d][1])
        /\ \A u \in Verts(V), v \in Verts(V) :
              (Edge(this, u, v) /\ ~MutuallyReachable(this, u, v)) =>
                  ComponentIndex(res.val, u) < ComponentIndex(res.val, v)

\* Three components have been returned, with an edge between two of them
\* that runs from the larger vertex to the smaller.
C27_Witness ==
    /\ res.op = "getSCCs"
    /\ Len(res.val) = 3
    /\ \E u \in Verts(V), v \in Verts(V) : u > v /\ Edge(this, u, v)

\* C28: on every graph with V >= 1, hasCycleDirected() is true exactly when
\* topologicalSort() returns the empty sequence, parallel edges and
\* self-loops included.
C28_CycleVerdictsAgree ==
    /\ res.op = "hasCycleDirected" =>
          (res.val <=> topologicalSort(this) = << >>)
    /\ res.op = "topologicalSort" =>
          ((res.val = << >>) <=> hasCycleDirected(this))

\* topologicalSort has returned a full order on a graph with two parallel
\* edges.
C28_Witness ==
    /\ res.op = "topologicalSort"
    /\ Len(res.val) = V
    /\ \E u \in Verts(V), v \in Verts(V) :
          Cardinality(EntriesTo(adjList[u], v)) = 2

\* C29: on a graph with non-negative weights the row floydWarshall()[s] is
\* dijkstra(s), position by position, for every s in range, parallel edges
\* of different weights and self-loops included.
C29_FloydRowIsDijkstra ==
    res.op = "dijkstra" => floydWarshall(this)[res.start] = res.val

\* C30: a second makeUndirected() right after the first adds no entry and
\* changes no cell, zero-weight edges included.
C30_MakeUndirectedIdempotent ==
    (res.op = "makeUndirected" /\ fault = "none") =>
        \A o \in makeUndirected(this) :
            o.g.adjList = adjList /\ o.g.adjMatrix = adjMatrix

====
